---- MODULE Spec2Model ----
(***************************************************************************)
(* A model of the PayPal Adaptive client of src/lib/paypal-adaptive.ts:    *)
(* the constructor (configuration check and merge with the defaults),      *)
(* callApi (header construction, httpsPost, interpretation of the reply)   *)
(* and the operation wrappers built on it.                                 *)
(***************************************************************************)
EXTENDS Integers, Sequences, FiniteSets, TLC

(***************************************************************************)
(* JavaScript values.  Every value is a record of one shape: k is its      *)
(* type, p the text of a primitive (or the message of an Error), f the     *)
(* properties of an object, array or Error.                                *)
(***************************************************************************)
NoFields == [x \in {} |-> ""]

Val(k, p, f) == [k |-> k, p |-> p, f |-> f]

JUndef == Val("undefined", "", NoFields)
JNull == Val("null", "", NoFields)
JTrue == Val("bool", "true", NoFields)
JFalse == Val("bool", "false", NoFields)
JStr(s) == Val("str", s, NoFields)
JNum(s) == Val("num", s, NoFields)
JObj(f) == Val("obj", "", f)
JArr(f) == Val("arr", "", f)
JError(message, f) == Val("error", message, f)

\* ToBoolean: what `if (v)`, `!v` and `a || b` test.
Truthy(v) ==
    CASE v.k \in {"undefined", "null"} -> FALSE
      [] v.k = "bool" -> v.p = "true"
      [] v.k = "num" -> v.p # "0"
      [] v.k = "str" -> v.p # ""
      [] OTHER -> TRUE

\* o[key] on the property map of an object: undefined when the key is absent.
Get(f, key) == IF key \in DOMAIN f THEN f[key] ELSE JUndef

\* v.key for a value that is neither null nor undefined (those throw a
\* TypeError, which the callers below test first).  A primitive has none of
\* the properties read here.
GetProp(v, key) == IF v.k \in {"obj", "arr", "error"} THEN Get(v.f, key) ELSE JUndef

\* v.key = x on an object.
SetProp(v, key, x) == Val(v.k, v.p, (key :> x) @@ v.f)

DigitStr == <<"0", "1", "2", "3", "4", "5", "6", "7", "8", "9">>

\* Number.prototype.toString for a non-negative integer.
RECURSIVE NumStr(_)
NumStr(n) == IF n < 10 THEN DigitStr[n + 1] ELSE NumStr(n \div 10) \o DigitStr[(n % 10) + 1]

\* String(v), as string concatenation and RegExp.prototype.test
\* apply it: an array is its elements joined by commas.
RECURSIVE JSToString(_), JoinFrom(_, _)
JoinFrom(f, i) ==
    IF NumStr(i) \notin DOMAIN f THEN ""
    ELSE (IF i = 0 THEN "" ELSE ",")
         \o (IF f[NumStr(i)].k \in {"undefined", "null"} THEN "" ELSE JSToString(f[NumStr(i)]))
         \o JoinFrom(f, i + 1)
JSToString(v) ==
    CASE v.k = "undefined" -> "undefined"
      [] v.k = "null" -> "null"
      [] v.k = "arr" -> JoinFrom(v.f, 0)
      [] v.k = "obj" -> "[object Object]"
      [] v.k = "error" -> "Error: " \o v.p
      [] OTHER -> v.p

(***************************************************************************)
(* Text on the wire.  A body is the sequence of its lexical tokens: a      *)
(* punctuation mark, a quoted string, or a bare word (a literal, a number, *)
(* or text that is no JSON at all).                                        *)
(***************************************************************************)
Tok(t, s) == [t |-> t, s |-> s]
P(s) == Tok("p", s)
S(s) == Tok("s", s)
W(s) == Tok("w", s)

NumberWords == {"0", "1"}

\* The text itself, as the string a caller sees.
RECURSIVE Render(_)
Render(toks) ==
    IF toks = <<>> THEN ""
    ELSE (IF Head(toks).t = "s" THEN "\"" \o Head(toks).s \o "\"" ELSE Head(toks).s)
         \o Render(Tail(toks))

ParseFail == [ok |-> FALSE, v |-> JUndef, n |-> 0]
ParseOk(v, n) == [ok |-> TRUE, v |-> v, n |-> n]
IsP(toks, i, s) == i <= Len(toks) /\ toks[i] = P(s)

\* JSON.parse, by recursive descent from token i; n is the next token.
RECURSIVE ParseValue(_, _), ParseMembers(_, _, _), ParseElements(_, _, _, _)
ParseValue(toks, i) ==
    IF i > Len(toks) THEN ParseFail
    ELSE LET t == toks[i] IN
         CASE t.t = "s" -> ParseOk(JStr(t.s), i + 1)
           [] t.t = "w" ->
                IF t.s = "null" THEN ParseOk(JNull, i + 1)
                ELSE IF t.s = "true" THEN ParseOk(JTrue, i + 1)
                ELSE IF t.s = "false" THEN ParseOk(JFalse, i + 1)
                ELSE IF t.s \in NumberWords THEN ParseOk(JNum(t.s), i + 1)
                ELSE ParseFail
           [] OTHER ->
                IF t.s = "{"
                THEN IF IsP(toks, i + 1, "}") THEN ParseOk(JObj(NoFields), i + 2)
                     ELSE ParseMembers(toks, i + 1, NoFields)
                ELSE IF t.s = "["
                THEN IF IsP(toks, i + 1, "]") THEN ParseOk(JArr(NoFields), i + 2)
                     ELSE ParseElements(toks, i + 1, NoFields, 0)
                ELSE ParseFail
ParseMembers(toks, i, acc) ==
    IF i + 1 > Len(toks) THEN ParseFail
    ELSE IF toks[i].t # "s" \/ toks[i + 1] # P(":") THEN ParseFail
    ELSE LET r == ParseValue(toks, i + 2)
             acc2 == (toks[i].s :> r.v) @@ acc
         IN IF ~r.ok THEN ParseFail
            ELSE IF IsP(toks, r.n, "}") THEN ParseOk(JObj(acc2), r.n + 1)
            ELSE IF IsP(toks, r.n, ",") THEN ParseMembers(toks, r.n + 1, acc2)
            ELSE ParseFail
ParseElements(toks, i, acc, idx) ==
    LET r == ParseValue(toks, i)
        acc2 == (NumStr(idx) :> r.v) @@ acc
    IN IF ~r.ok THEN ParseFail
       ELSE IF IsP(toks, r.n, "]") THEN ParseOk(JArr(acc2), r.n + 1)
       ELSE IF IsP(toks, r.n, ",") THEN ParseElements(toks, r.n + 1, acc2, idx + 1)
       ELSE ParseFail

\* JSON.parse(text): ok is FALSE where it throws a SyntaxError.
JSONParse(toks) ==
    LET r == ParseValue(toks, 1)
    IN IF r.ok /\ r.n = Len(toks) + 1 THEN [ok |-> TRUE, v |-> r.v]
       ELSE [ok |-> FALSE, v |-> JUndef]

\* The order in which the payloads of this model list their keys.
KeyOrder == <<"requestEnvelope", "errorLanguage", "detailLevel", "payKey",
              "transactionId", "trackingId", "currencyCode", "preapprovalKey">>

\* JSON.stringify(v); undefined has no JSON text and yields undefined.
RECURSIVE StringifyText(_), StringifyMembers(_, _, _)
StringifyMembers(f, i, first) ==
    IF i > Len(KeyOrder) THEN ""
    ELSE IF KeyOrder[i] \notin DOMAIN f \/ f[KeyOrder[i]].k = "undefined"
    THEN StringifyMembers(f, i + 1, first)
    ELSE (IF first THEN "" ELSE ",")
         \o "\"" \o KeyOrder[i] \o "\":" \o StringifyText(f[KeyOrder[i]])
         \o StringifyMembers(f, i + 1, FALSE)
StringifyText(v) ==
    CASE v.k = "str" -> "\"" \o v.p \o "\""
      [] v.k = "obj" -> "{" \o StringifyMembers(v.f, 1, TRUE) \o "}"
      [] v.k = "null" -> "null"
      [] OTHER -> v.p
JSONStringify(v) == IF v.k = "undefined" THEN JUndef ELSE JStr(StringifyText(v))

(***************************************************************************)
(* util.format(template, arg) for one argument: the first %s is replaced   *)
(* by the argument's text.  SlotOf records, for each template, the text    *)
(* before and after its %s.                                                *)
(***************************************************************************)
ApprovalUrl == "https://www.paypal.com/cgi-bin/webscr?cmd=_ap-payment&paykey=%s"
SandboxApprovalUrl == "https://www.sandbox.paypal.com/cgi-bin/webscr?cmd=_ap-payment&paykey=%s"
PreapprovalUrl == "https://www.paypal.com/webscr?cmd=_ap-preapproval&preapprovalkey=%s"
SandboxPreapprovalUrl == "https://www.sandbox.paypal.com/webscr?cmd=_ap-preapproval&preapprovalkey=%s"

SlotOf ==
    (ApprovalUrl :> <<"https://www.paypal.com/cgi-bin/webscr?cmd=_ap-payment&paykey=", "">>)
    @@ (SandboxApprovalUrl :> <<"https://www.sandbox.paypal.com/cgi-bin/webscr?cmd=_ap-payment&paykey=", "">>)
    @@ (PreapprovalUrl :> <<"https://www.paypal.com/webscr?cmd=_ap-preapproval&preapprovalkey=", "">>)
    @@ (SandboxPreapprovalUrl :> <<"https://www.sandbox.paypal.com/webscr?cmd=_ap-preapproval&preapprovalkey=", "">>)

format(template, arg) ==
    IF template \in DOMAIN SlotOf
    THEN SlotOf[template][1] \o JSToString(arg) \o SlotOf[template][2]
    ELSE template \o " " \o JSToString(arg)

(***************************************************************************)
(* merge(target, source) of es-toolkit on property maps: plain objects     *)
(* merge key by key, any other source value overrides the target's unless  *)
(* it is undefined and the target's is not.                                *)
(***************************************************************************)
RECURSIVE merge(_, _)
merge(target, source) ==
    [key \in DOMAIN target \cup DOMAIN source |->
        IF key \notin DOMAIN source THEN target[key]
        ELSE LET sv == source[key]
                 tv == Get(target, key)
             IN IF sv.k = "obj" /\ tv.k = "obj" THEN JObj(merge(tv.f, sv.f))
                ELSE IF sv.k = "obj" THEN JObj(merge(NoFields, sv.f))
                ELSE IF tv = JUndef \/ sv # JUndef THEN sv
                ELSE tv]

defaultPayload ==
    JObj("requestEnvelope" :>
            JObj(("errorLanguage" :> JStr("en_US")) @@ ("detailLevel" :> JStr("ReturnAll"))))

(***************************************************************************)
(* The constructor.                                                        *)
(***************************************************************************)
defaultConfig ==
    ("requestFormat" :> JStr("JSON"))
    @@ ("responseFormat" :> JStr("JSON"))
    @@ ("sandbox" :> JFalse)
    @@ ("productionHostname" :> JStr("svcs.paypal.com"))
    @@ ("sandboxHostname" :> JStr("svcs.sandbox.paypal.com"))
    @@ ("appId" :> JStr("APP-80W284485P519543T"))
    @@ ("approvalUrl" :> JStr(ApprovalUrl))
    @@ ("sandboxApprovalUrl" :> JStr(SandboxApprovalUrl))
    @@ ("preapprovalUrl" :> JStr(PreapprovalUrl))
    @@ ("sandboxPreapprovalUrl" :> JStr(SandboxPreapprovalUrl))

\* The message of the Error the constructor throws for this argument, ""
\* when it throws none.
ConfigErrorNoAppIdCheck(config) ==
    IF ~Truthy(config) THEN "Config is required"
    ELSE IF ~Truthy(GetProp(config, "userId")) THEN "Config must have userId"
    ELSE IF ~Truthy(GetProp(config, "password")) THEN "Config must have password"
    ELSE IF ~Truthy(GetProp(config, "signature")) THEN "Config must have signature"
    ELSE ""

ConfigError(config) ==
    IF ~Truthy(config) THEN "Config is required"
    ELSE IF ~Truthy(GetProp(config, "userId")) THEN "Config must have userId"
    ELSE IF ~Truthy(GetProp(config, "password")) THEN "Config must have password"
    ELSE IF ~Truthy(GetProp(config, "signature")) THEN "Config must have signature"
    ELSE IF ~Truthy(GetProp(config, "appId")) /\ ~Truthy(GetProp(config, "sandbox"))
    THEN "Config must have appId"
    ELSE ""

(***************************************************************************)
(* callApi: the request it builds, and httpsPost's part before the reply.  *)
(***************************************************************************)
WithHeader(headers, name, v) == IF Truthy(v) THEN (name :> v) @@ headers ELSE headers

\* The three conditional assignments to options.headers.
OptionalHeadersAlways(cfg, headers) ==
    ("X-PAYPAL-SANDBOX-EMAIL-ADDRESS" :> Get(cfg, "sandboxEmailAddress"))
    @@ ("X-PAYPAL-DEVICE-IPADDRESS" :> Get(cfg, "deviceIpAddress"))
    @@ ("X-PAYPAL-SECURITY-SUBJECT" :> Get(cfg, "subject"))
    @@ headers

OptionalHeaders(cfg, headers) ==
    WithHeader(
        WithHeader(
            WithHeader(headers, "X-PAYPAL-SANDBOX-EMAIL-ADDRESS", Get(cfg, "sandboxEmailAddress")),
            "X-PAYPAL-DEVICE-IPADDRESS", Get(cfg, "deviceIpAddress")),
        "X-PAYPAL-SECURITY-SUBJECT", Get(cfg, "subject"))

\* The options object of callApi.
CallApiOptions(cfg, apiMethod, data) ==
    [hostname |-> IF Truthy(Get(cfg, "sandbox")) THEN Get(cfg, "sandboxHostname")
                  ELSE Get(cfg, "productionHostname"),
     port |-> 443,
     path |-> "/" \o apiMethod,
     method |-> "",
     data |-> data,
     headers |->
        OptionalHeaders(cfg,
            ("X-PAYPAL-SECURITY-USERID" :> Get(cfg, "userId"))
            @@ ("X-PAYPAL-SECURITY-PASSWORD" :> Get(cfg, "password"))
            @@ ("X-PAYPAL-SECURITY-SIGNATURE" :> Get(cfg, "signature"))
            @@ ("X-PAYPAL-APPLICATION-ID" :> Get(cfg, "appId"))
            @@ ("X-PAYPAL-REQUEST-DATA-FORMAT" :> Get(cfg, "requestFormat"))
            @@ ("X-PAYPAL-RESPONSE-DATA-FORMAT" :> Get(cfg, "responseFormat")))]

NoOptions ==
    [hostname |-> JUndef, port |-> 0, path |-> "", method |-> "", data |-> JUndef,
     headers |-> NoFields]

\* httpsPost: the text to send.
PostData(options) ==
    IF options.data.k # "str" THEN JSONStringify(options.data) ELSE options.data

\* Buffer.byteLength(undefined) throws a TypeError before any request exists.
PostThrows(options) == PostData(options).k = "undefined"

\* httpsPost: the options https.request is given.
PostOptions(options) ==
    [options EXCEPT
        !.method = "POST",
        !.headers = ("Content-Length" :> JStr(NumStr(Len(PostData(options).p)))) @@ @]

(***************************************************************************)
(* What a run of a handler did with the callback it was given: n is the    *)
(* number of times it invoked it, err and res the arguments, threw whether *)
(* it ended by throwing instead.                                           *)
(***************************************************************************)
Called(err, res) == [threw |-> FALSE, n |-> 1, err |-> err, res |-> res]
Threw == [threw |-> TRUE, n |-> 0, err |-> JUndef, res |-> JUndef]
NoResult == [threw |-> FALSE, n |-> 0, err |-> JUndef, res |-> JUndef]

\* What httpsPost hands to its callback: callback(e) from req.on('error'),
\* callback(null, {statusCode, body}) from res.on('end').
ErrorReply(e) == [error |-> e, responded |-> FALSE, statusCode |-> 0, body |-> <<>>]
EndReply(statusCode, body) ==
    [error |-> JNull, responded |-> TRUE, statusCode |-> statusCode, body |-> body]
NoReply == [error |-> JUndef, responded |-> FALSE, statusCode |-> 0, body |-> <<>>]

\* res.on('data'): response += chunk, over the chunks in order.
RECURSIVE Buffered(_)
Buffered(chunks) == IF chunks = <<>> THEN <<>> ELSE Head(chunks) \o Buffered(Tail(chunks))

InvalidJsonError(reply) ==
    JError("Invalid JSON Response Received",
           ("response" :> JStr(Render(reply.body)))
           @@ ("httpStatusCode" :> JNum(NumStr(reply.statusCode))))

StatusError(reply, parsedBody) ==
    JError("Response Status: " \o NumStr(reply.statusCode),
           ("response" :> (IF Truthy(parsedBody) THEN parsedBody ELSE JStr(Render(reply.body))))
           @@ ("httpStatusCode" :> JNum(NumStr(reply.statusCode))))

AckError(ack) ==
    JError("Response ack is " \o JSToString(ack) \o ". Check the response for more info",
           NoFields)

\* /^(Success|SuccessWithWarning)$/.test(ack)
AckTestSuccessOnly(ack) == JSToString(ack) = "Success"

AckTest(ack) == JSToString(ack) \in {"Success", "SuccessWithWarning"}

\* statusCode && (statusCode < 200 || statusCode >= 300)
BadStatus(statusCode) == statusCode # 0 /\ (statusCode < 200 \/ statusCode >= 300)

\* The part of callApi's response handler after parsing: parsedBody is null
\* when responseFormat is not JSON.
Classify(reply, parsedBody) ==
    IF BadStatus(reply.statusCode) THEN Called(StatusError(reply, parsedBody), JUndef)
    \* parsedBody.httpStatusCode = statusCode: a TypeError on null; on a
    \* primitive either a TypeError (strict code) or no effect, and then
    \* parsedBody.responseEnvelope is undefined and reading its ack throws.
    ELSE IF parsedBody.k \notin {"obj", "arr"} THEN Threw
    ELSE LET body == SetProp(parsedBody, "httpStatusCode", JNum(NumStr(reply.statusCode)))
             envelope == GetProp(body, "responseEnvelope")
         IN IF envelope.k \in {"undefined", "null"} THEN Threw
            ELSE IF AckTest(GetProp(envelope, "ack")) THEN Called(JNull, body)
            ELSE Called(AckError(GetProp(envelope, "ack")), body)

\* The callback callApi gives to httpsPost.
HandleReplyStatusFirst(cfg, reply) ==
    IF Truthy(reply.error) THEN Called(reply.error, JUndef)
    ELSE IF ~reply.responded THEN Called(JError("Empty response", NoFields), JUndef)
    ELSE IF Get(cfg, "responseFormat") = JStr("JSON")
    THEN IF BadStatus(reply.statusCode) \/ JSONParse(reply.body).ok
         THEN Classify(reply, JSONParse(reply.body).v)
         ELSE Called(InvalidJsonError(reply), JUndef)
    ELSE Classify(reply, JNull)

HandleReply(cfg, reply) ==
    IF Truthy(reply.error) THEN Called(reply.error, JUndef)
    ELSE IF ~reply.responded THEN Called(JError("Empty response", NoFields), JUndef)
    ELSE IF Get(cfg, "responseFormat") = JStr("JSON")
    THEN IF JSONParse(reply.body).ok
         THEN Classify(reply, JSONParse(reply.body).v)
         ELSE Called(InvalidJsonError(reply), JUndef)
    ELSE Classify(reply, JNull)

(***************************************************************************)
(* The callbacks pay and preapproval give to callApi.  r is what callApi's *)
(* handler did with them; a handler that threw never reached them.         *)
(***************************************************************************)
PayCallbackAnyStatus(cfg, r) ==
    IF r.n = 0 THEN r
    ELSE IF Truthy(r.err) THEN Called(r.err, r.res)
    ELSE IF ~Truthy(r.res) THEN Called(JError("Empty response", NoFields), JUndef)
    ELSE LET url == IF Truthy(Get(cfg, "sandbox")) THEN Get(cfg, "sandboxApprovalUrl")
                    ELSE Get(cfg, "approvalUrl")
         IN Called(JNull, SetProp(r.res, "paymentApprovalUrl",
                                  JStr(format(url.p, GetProp(r.res, "payKey")))))

PayCallback(cfg, r) ==
    IF r.n = 0 THEN r
    ELSE IF Truthy(r.err) THEN Called(r.err, r.res)
    ELSE IF ~Truthy(r.res) THEN Called(JError("Empty response", NoFields), JUndef)
    ELSE IF GetProp(r.res, "paymentExecStatus") = JStr("CREATED")
    THEN LET url == IF Truthy(Get(cfg, "sandbox")) THEN Get(cfg, "sandboxApprovalUrl")
                    ELSE Get(cfg, "approvalUrl")
         IN Called(JNull, SetProp(r.res, "paymentApprovalUrl",
                                  JStr(format(url.p, GetProp(r.res, "payKey")))))
    ELSE Called(JNull, r.res)

PreapprovalCallbackProductionUrl(cfg, r) ==
    IF r.n = 0 THEN r
    ELSE IF Truthy(r.err) THEN Called(r.err, r.res)
    ELSE IF ~Truthy(r.res) THEN Called(JError("Empty response", NoFields), JUndef)
    ELSE IF Truthy(GetProp(r.res, "preapprovalKey"))
    THEN Called(JNull, SetProp(r.res, "preapprovalUrl",
                               JStr(format(Get(cfg, "preapprovalUrl").p,
                                           GetProp(r.res, "preapprovalKey")))))
    ELSE Called(JNull, r.res)

PreapprovalCallback(cfg, r) ==
    IF r.n = 0 THEN r
    ELSE IF Truthy(r.err) THEN Called(r.err, r.res)
    ELSE IF ~Truthy(r.res) THEN Called(JError("Empty response", NoFields), JUndef)
    ELSE IF Truthy(GetProp(r.res, "preapprovalKey"))
    THEN LET url == IF Truthy(Get(cfg, "sandbox")) THEN Get(cfg, "sandboxPreapprovalUrl")
                    ELSE Get(cfg, "preapprovalUrl")
         IN Called(JNull, SetProp(r.res, "preapprovalUrl",
                                  JStr(format(url.p, GetProp(r.res, "preapprovalKey")))))
    ELSE Called(JNull, r.res)

\* The callback each operation gives to callApi: the caller's own, except
\* for pay and preapproval.
OperationCallback(kind, cfg, r) ==
    CASE kind = "pay" -> PayCallback(cfg, r)
      [] kind = "preapproval" -> PreapprovalCallback(cfg, r)
      [] OTHER -> r

\* The wrappers that pass their payload through, and their endpoints.
Catalog ==
    ("cancelPreapproval" :> "AdaptivePayments/CancelPreapproval")
    @@ ("convertCurrency" :> "AdaptivePayments/ConvertCurrency")
    @@ ("executePayment" :> "AdaptivePayments/ExecutePayment")
    @@ ("getFundingPlans" :> "AdaptivePayments/GetFundingPlans")
    @@ ("getShippingAddresses" :> "AdaptivePayments/GetShippingAddresses")
    @@ ("preapprovalDetails" :> "AdaptivePayments/PreapprovalDetails")
    @@ ("setPaymentOptions" :> "AdaptivePayments/SetPaymentOptions")
    @@ ("addBankAccount" :> "AdaptiveAccounts/AddBankAccount")
    @@ ("addPaymentCard" :> "AdaptiveAccounts/AddPaymentCard")
    @@ ("checkComplianceStatus" :> "AdaptiveAccounts/CheckComplianceStatus")
    @@ ("createAccount" :> "AdaptiveAccounts/CreateAccount")
    @@ ("getUserAgreement" :> "AdaptiveAccounts/GetUserAgreement")
    @@ ("getVerifiedStatus" :> "AdaptiveAccounts/GetVerifiedStatus")
    @@ ("setFundingSourceConfirmed" :> "AdaptiveAccounts/SetFundingSourceConfirmed")
    @@ ("updateComplianceStatus" :> "AdaptiveAccounts/UpdateComplianceStatus")

(***************************************************************************)
(* The state.                                                              *)
(*   ctor     what `new Paypal(input)` did: not called yet, returned a     *)
(*            client, or threw the Error with message `error`              *)
(*   config   this.config of the client                                    *)
(*   issued   the number of operation calls made on the client             *)
(*   pending  the calls whose request is with the transport                *)
(*   last     the operation call that ended last: its request, the reply   *)
(*            httpsPost delivered, what callApi did with the callback it   *)
(*            was given (inner) and what the caller's callback received    *)
(***************************************************************************)
VARIABLES ctor, config, issued, pending, last

vars == <<ctor, config, issued, pending, last>>

MaxCalls == 1

Ended(id, kind, arg, request, reply, inner, outer, sync) ==
    [id |-> id, kind |-> kind, arg |-> arg, sent |-> request # NoOptions,
     request |-> request, reply |-> reply, inner |-> inner,
     cb |-> outer.n, err |-> outer.err, res |-> outer.res, threw |-> outer.threw,
     sync |-> sync]

Init ==
    /\ ctor = [state |-> "none", input |-> JUndef, error |-> ""]
    /\ config = NoFields
    /\ issued = 0
    /\ pending = NoFields
    /\ last = Ended(0, "", JUndef, NoOptions, NoReply, NoResult, NoResult, FALSE)

\* new Paypal(input)
Constructor(input) ==
    /\ ctor.state = "none"
    /\ ctor' = [state |-> IF ConfigError(input) = "" THEN "ok" ELSE "threw",
                input |-> input,
                error |-> ConfigError(input)]
    /\ config' = IF ConfigError(input) = "" THEN merge(defaultConfig, input.f) ELSE NoFields
    /\ UNCHANGED <<issued, pending, last>>

\* this.callApi(apiMethod, data, callback) as the operation `kind` called
\* with `arg` makes it, up to the return of httpsPost.
CallApiStart(kind, arg, apiMethod, data) ==
    LET options == CallApiOptions(config, apiMethod, data)
    IN /\ issued' = issued + 1
       /\ IF PostThrows(options)
          THEN /\ last' = Ended(issued + 1, kind, arg, NoOptions, NoReply, Threw, Threw, TRUE)
               /\ UNCHANGED pending
          ELSE /\ pending' = (issued + 1 :> [kind |-> kind, arg |-> arg,
                                             request |-> PostOptions(options),
                                             responding |-> FALSE, statusCode |-> 0,
                                             chunks |-> <<>>, got |-> 0,
                                             response |-> <<>>]) @@ pending
               /\ UNCHANGED last
       /\ UNCHANGED <<ctor, config>>

\* An operation that ends before it reaches callApi.
EndsEarly(kind, arg, outer) ==
    /\ issued' = issued + 1
    /\ last' = Ended(issued + 1, kind, arg, NoOptions, NoReply, NoResult, outer, TRUE)
    /\ UNCHANGED <<ctor, config, pending>>

CanCall == ctor.state = "ok" /\ issued < MaxCalls

callApi(apiMethod, data) ==
    /\ CanCall
    /\ CallApiStart("callApi", data, apiMethod, data)

getPaymentOptionsNoCheck(payKey) ==
    /\ CanCall
    /\ CallApiStart("getPaymentOptions", payKey, "AdaptivePayments/GetPaymentOptions",
                    SetProp(defaultPayload, "payKey", payKey))

getPaymentOptions(payKey) ==
    /\ CanCall
    /\ IF ~Truthy(payKey)
       THEN EndsEarly("getPaymentOptions", payKey,
                      Called(JError("Required \"payKey\"", NoFields), JUndef))
       ELSE CallApiStart("getPaymentOptions", payKey, "AdaptivePayments/GetPaymentOptions",
                         SetProp(defaultPayload, "payKey", payKey))

\* The check paymentDetails and refund share, and what follows it.  Reading
\* a property of params throws a TypeError when params is null or undefined.
WithIdentifier(kind, params, apiMethod) ==
    IF params.k \in {"undefined", "null"} THEN EndsEarly(kind, params, Threw)
    ELSE IF /\ ~Truthy(GetProp(params, "payKey"))
            /\ ~Truthy(GetProp(params, "transactionId"))
            /\ ~Truthy(GetProp(params, "trackingId"))
    THEN EndsEarly(kind, params,
                   Called(JError("Required \"payKey\" or \"transactionId\" or \"trackingId\" on first param",
                                 NoFields), JUndef))
    ELSE CallApiStart(kind, params, apiMethod, JObj(merge(defaultPayload.f, params.f)))

paymentDetails(params) ==
    /\ CanCall
    /\ WithIdentifier("paymentDetails", params, "AdaptivePayments/PaymentDetails")

refund(params) ==
    /\ CanCall
    /\ WithIdentifier("refund", params, "AdaptivePayments/Refund")

pay(data) ==
    /\ CanCall
    /\ CallApiStart("pay", data, "AdaptivePayments/Pay", data)

preapproval(data) ==
    /\ CanCall
    /\ CallApiStart("preapproval", data, "AdaptivePayments/Preapproval", data)

PassThrough(name, data) ==
    /\ CanCall
    /\ CallApiStart(name, data, Catalog[name], data)

\* The reply of the transport reaches httpsPost's callback, and through it
\* callApi's handler, the operation's callback and the caller's.
Complete(id, reply) ==
    LET call == pending[id]
        inner == HandleReply(config, reply)
    IN /\ last' = Ended(id, call.kind, call.arg, call.request, reply, inner,
                        OperationCallback(call.kind, config, inner), FALSE)
       /\ pending' = [i \in DOMAIN pending \ {id} |-> pending[i]]
       /\ UNCHANGED <<ctor, config, issued>>

\* req.on('error')
RequestError(id, e) ==
    /\ id \in DOMAIN pending
    /\ Complete(id, ErrorReply(e))

\* req.on('response'), res.on('data') for each chunk, res.on('end')
ResponseEnd(id, statusCode, chunks) ==
    /\ id \in DOMAIN pending
    /\ Complete(id, EndReply(statusCode, Buffered(chunks)))

\* req.on('response'): the reply of one request begins, with its status and
\* the chunks the transport will deliver; let response = ''.
OnResponse(id, statusCode, chunks) ==
    /\ id \in DOMAIN pending
    /\ ~pending[id].responding
    /\ pending' = [pending EXCEPT ![id] =
                     [@ EXCEPT !.responding = TRUE, !.statusCode = statusCode,
                               !.chunks = chunks, !.got = 0, !.response = <<>>]]
    /\ UNCHANGED <<ctor, config, issued, last>>

OnDataSharedBuffer(id) ==
    /\ id \in DOMAIN pending
    /\ pending[id].responding
    /\ pending[id].got < Len(pending[id].chunks)
    /\ pending' = [i \in DOMAIN pending |->
                     IF i = id
                     THEN [pending[i] EXCEPT !.got = @ + 1,
                             !.response = @ \o pending[id].chunks[pending[id].got + 1]]
                     ELSE IF pending[i].responding
                     THEN [pending[i] EXCEPT
                             !.response = @ \o pending[id].chunks[pending[id].got + 1]]
                     ELSE pending[i]]
    /\ UNCHANGED <<ctor, config, issued, last>>

\* res.on('data'): response += chunk, for the next chunk of this reply.
OnData(id) ==
    /\ id \in DOMAIN pending
    /\ pending[id].responding
    /\ pending[id].got < Len(pending[id].chunks)
    /\ pending' = [pending EXCEPT ![id] =
                     [@ EXCEPT !.got = @ + 1,
                               !.response = @ \o pending[id].chunks[pending[id].got + 1]]]
    /\ UNCHANGED <<ctor, config, issued, last>>

\* res.on('end'): callback(null, {statusCode: res.statusCode, body: response})
OnEnd(id) ==
    /\ id \in DOMAIN pending
    /\ pending[id].responding
    /\ pending[id].got = Len(pending[id].chunks)
    /\ Complete(id, EndReply(pending[id].statusCode, pending[id].response))

(***************************************************************************)
(* The inputs: constructor arguments, operation arguments, replies.        *)
(***************************************************************************)
Absent == Val("absent", "", NoFields)
Opt(name, v) == IF v = Absent THEN NoFields ELSE (name :> v)

Credentials ==
    ("userId" :> JStr("mockUserId"))
    @@ ("password" :> JStr("mockPassword"))
    @@ ("signature" :> JStr("mockSignature"))

\* The constructor arguments of Spec: sandbox and production clients with
\* either response format, and two arguments the constructor rejects.
ConfigInputs ==
    {JUndef,
     JObj(("userId" :> JStr("mockUserId")) @@ ("password" :> JStr("mockPassword"))
          @@ ("sandbox" :> JTrue)),
     JObj(Credentials @@ ("sandbox" :> JTrue)),
     JObj(Credentials @@ ("sandbox" :> JTrue) @@ ("responseFormat" :> JStr("XML"))),
     JObj(Credentials @@ ("appId" :> JStr("APP-MINE"))),
     JObj(Credentials @@ ("appId" :> JStr("APP-MINE")) @@ ("responseFormat" :> JStr("XML")))}

\* The constructor arguments of SpecConfig: every field the constructor
\* checks or a header reads, absent, empty or set.
AllConfigInputs ==
    {JUndef, JNull} \cup
    {JObj(Opt("userId", userId) @@ Opt("password", password) @@ Opt("signature", signature)
          @@ Opt("appId", appId) @@ Opt("sandbox", sandbox)
          @@ Opt("sandboxEmailAddress", email) @@ Opt("deviceIpAddress", ip)
          @@ Opt("subject", subject)) :
        userId \in {Absent, JStr(""), JStr("mockUserId")},
        password \in {Absent, JStr("mockPassword")},
        signature \in {Absent, JStr("mockSignature")},
        appId \in {Absent, JUndef, JNull, JStr(""), JStr("APP-MINE")},
        sandbox \in {Absent, JFalse, JTrue},
        email \in {Absent, JStr(""), JStr("mockEmailAddress")},
        ip \in {Absent, JStr("mockIpAddress")},
        subject \in {Absent, JStr("mockSubject")}}

ApiMethods == {"just-for-check-header"}

\* Payloads: {} and none at all; with a field, for SpecConfig.
Payloads == {JObj(NoFields), JUndef}
AllPayloads == Payloads \cup {JObj("currencyCode" :> JStr("USD"))}

PayKeyArgs == {JUndef, JStr(""), JStr("AP-X")}

PaymentDetailsArgs ==
    {JUndef, JObj(NoFields), JObj("payKey" :> JStr("")), JObj("payKey" :> JStr("AP-X"))}

RefundArgs ==
    {JUndef, JObj(NoFields), JObj("transactionId" :> JStr("")),
     JObj(("payKey" :> JStr("")) @@ ("trackingId" :> JStr("T-1")))}

\* The pass-through wrappers Spec calls: one of each namespace.
SomeWrappers == {"cancelPreapproval", "createAccount"}

\* req.on('error', e)
TransportErrors == {JError("socket hang up", "code" :> JStr("ECONNRESET"))}

StatusCodes == {199, 200, 299, 300, 400}

\* The text of an object with these members, each <<key, text of its value>>.
RECURSIVE MembersText(_)
MembersText(ms) ==
    IF ms = <<>> THEN <<>>
    ELSE <<S(ms[1][1]), P(":")>> \o ms[1][2]
         \o (IF Len(ms) > 1 THEN <<P(",")>> ELSE <<>>) \o MembersText(Tail(ms))
ObjText(ms) == <<P("{")>> \o MembersText(ms) \o <<P("}")>>

Envelope(ack) == <<"responseEnvelope", ObjText(<< <<"ack", <<S(ack)>> >> >>)>>
Member(key, s) == <<key, <<S(s)>> >>

JjxBody == ObjText(<<Member("jjx", "jjx")>>)
OkBody == ObjText(<<Envelope("Success"), Member("mock", "mock")>>)
WarningBody == ObjText(<<Envelope("SuccessWithWarning"), Member("mock", "mock")>>)
FailureBody == ObjText(<<Envelope("NotSuccess"), Member("error", "errorMock")>>)
CreatedBody ==
    ObjText(<<Envelope("Success"), Member("payKey", "AP-X"), Member("paymentExecStatus", "CREATED")>>)
PreapprovedBody == ObjText(<<Envelope("Success"), Member("preapprovalKey", "PA-X")>>)

\* Reply bodies of Spec: text that is no JSON, JSON that is no object,
\* objects with and without a response envelope, and acks of every kind.
Bodies ==
    {<<>>,
     <<W("<html>")>>,
     <<P("{"), S("responseEnvelope"), P(":")>>,
     <<W("null")>>, <<W("0")>>, <<W("1")>>, <<W("false")>>, <<S("")>>,
     <<P("["), P("]")>>,
     JjxBody,
     ObjText(<< <<"responseEnvelope", <<W("null")>> >> >>),
     ObjText(<< <<"responseEnvelope", ObjText(<<>>)>> >>),
     OkBody, WarningBody, FailureBody,
     ObjText(<<Envelope("success")>>),
     ObjText(<< <<"responseEnvelope",
                  ObjText(<< <<"ack", <<P("["), S("Success"), P("]")>> >> >>)>> >>)}

\* Reply bodies of SpecUrl: the fields pay and preapproval look at, present,
\* empty or absent, under a success and under a failure.
UrlBodies ==
    {<<W("<html>")>>, <<W("null")>>, JjxBody, OkBody, FailureBody,
     CreatedBody,
     ObjText(<<Envelope("Success"), Member("payKey", "AP-X"), Member("paymentExecStatus", "COMPLETED")>>),
     ObjText(<<Envelope("Success"), Member("paymentExecStatus", "CREATED")>>),
     ObjText(<<Envelope("Failure"), Member("payKey", "AP-X"), Member("paymentExecStatus", "CREATED")>>),
     PreapprovedBody,
     ObjText(<<Envelope("SuccessWithWarning"), Member("preapprovalKey", "PA-X"),
               Member("payKey", "AP-Y"), Member("paymentExecStatus", "CREATED")>>),
     ObjText(<<Envelope("Success"), Member("preapprovalKey", "")>>),
     ObjText(<<Envelope("Failure"), Member("preapprovalKey", "PA-X")>>)}

\* The chunks the transport delivers a body in: whole, and one body in two.
Chunked(bodies) ==
    {<<body>> : body \in bodies}
    \cup {<<SubSeq(OkBody, 1, 4), SubSeq(OkBody, 5, Len(OkBody))>>}

(***************************************************************************)
(* Spec: one client, callApi and the operations that hand their callback   *)
(* to it unchanged, every reply.                                           *)
(***************************************************************************)
Next ==
    \/ \E input \in ConfigInputs : Constructor(input)
    \/ \E apiMethod \in ApiMethods, data \in Payloads : callApi(apiMethod, data)
    \/ \E payKey \in PayKeyArgs : getPaymentOptions(payKey)
    \/ \E params \in PaymentDetailsArgs : paymentDetails(params)
    \/ \E params \in RefundArgs : refund(params)
    \/ \E name \in SomeWrappers, data \in Payloads : PassThrough(name, data)
    \/ \E id \in 1..MaxCalls, e \in TransportErrors : RequestError(id, e)
    \/ \E id \in 1..MaxCalls, statusCode \in StatusCodes, chunks \in Chunked(Bodies) :
          ResponseEnd(id, statusCode, chunks)

Spec == Init /\ [][Next]_vars

(***************************************************************************)
(* SpecUrl: pay and preapproval, and the replies they post-process.        *)
(***************************************************************************)
NextUrl ==
    \/ \E input \in ConfigInputs : Constructor(input)
    \/ \E data \in AllPayloads : pay(data)
    \/ \E data \in AllPayloads : preapproval(data)
    \/ \E id \in 1..MaxCalls, e \in TransportErrors : RequestError(id, e)
    \/ \E id \in 1..MaxCalls, statusCode \in StatusCodes, chunks \in Chunked(UrlBodies) :
          ResponseEnd(id, statusCode, chunks)

SpecUrl == Init /\ [][NextUrl]_vars

(***************************************************************************)
(* SpecConfig: every constructor argument, every wrapper that passes its   *)
(* payload through, and the replies of the tests.                          *)
(***************************************************************************)
NextConfig ==
    \/ \E input \in AllConfigInputs : Constructor(input)
    \/ \E apiMethod \in ApiMethods, data \in AllPayloads : callApi(apiMethod, data)
    \/ \E name \in DOMAIN Catalog, data \in Payloads : PassThrough(name, data)
    \/ \E id \in 1..MaxCalls, e \in TransportErrors : RequestError(id, e)
    \/ \E id \in 1..MaxCalls, chunks \in Chunked({JjxBody}) : ResponseEnd(id, 400, chunks)

SpecConfig == Init /\ [][NextConfig]_vars

(***************************************************************************)
(* SpecConcurrent: one client with several callApi calls in flight, whose  *)
(* replies arrive chunk by chunk in any interleaving.                      *)
(***************************************************************************)
MaxInFlight == 2

ConcurrentPayloads == {JObj(NoFields), JObj("currencyCode" :> JStr("USD"))}

ConcurrentStatusCodes == {200, 400}

\* Each reply in two chunks, cut inside the text.
ConcurrentChunks ==
    {<<SubSeq(body, 1, 4), SubSeq(body, 5, Len(body))>> : body \in {OkBody, FailureBody}}
    \cup {<<JjxBody>>}

\* callApi while earlier calls of the client are still with the transport.
callApiInFlight(apiMethod, data) ==
    /\ ctor.state = "ok"
    /\ issued < MaxInFlight
    /\ CallApiStart("callApi", data, apiMethod, data)

NextConcurrent ==
    \/ Constructor(JObj(Credentials @@ ("sandbox" :> JTrue)))
    \/ \E apiMethod \in ApiMethods, data \in ConcurrentPayloads :
          callApiInFlight(apiMethod, data)
    \/ \E id \in 1..MaxInFlight, e \in TransportErrors : RequestError(id, e)
    \/ \E id \in 1..MaxInFlight, statusCode \in ConcurrentStatusCodes,
           chunks \in ConcurrentChunks : OnResponse(id, statusCode, chunks)
    \/ \E id \in 1..MaxInFlight : OnData(id)
    \/ \E id \in 1..MaxInFlight : OnEnd(id)

SpecConcurrent == Init /\ [][NextConcurrent]_vars

(***************************************************************************)
(* The claims.  Each speaks of the operation call that ended last, and of  *)
(* the requests still with the transport.                                  *)
(***************************************************************************)
\* The call ended on an outcome of the transport: an error, or a reply.
EndedOnOutcome == last.id # 0 /\ last.sent
EndedOnReply == last.id # 0 /\ last.reply.responded

InRange(statusCode) == statusCode >= 200 /\ statusCode < 300
ExpectsJson == Get(config, "responseFormat") = JStr("JSON")
StatusValue == JNum(NumStr(last.reply.statusCode))
RawBody == JStr(Render(last.reply.body))

\* C1: every operation call whose request met an outcome of the transport (a
\* failure, or a reply of any status and body) has invoked the caller's
\* callback exactly once.
C1_CallbackExactlyOnce == EndedOnOutcome => last.cb = 1

\* C2: a reply whose status is outside [200, 300) gives callApi's callback an
\* error with that status as httpStatusCode and with the reply body as
\* response (the parsed body when it parsed, the raw text otherwise), and no
\* success value.
C2_StatusErrorCarriesBody ==
    (EndedOnReply /\ ~InRange(last.reply.statusCode)) =>
        /\ last.inner.n = 1
        /\ last.inner.err.k = "error"
        /\ GetProp(last.inner.err, "httpStatusCode") = StatusValue
        /\ GetProp(last.inner.err, "response") =
              (IF ExpectsJson /\ JSONParse(last.reply.body).ok
               THEN JSONParse(last.reply.body).v ELSE RawBody)
        /\ last.inner.res = JUndef

\* The reply's parsed body is an object whose responseEnvelope has an ack.
CarriesAck ==
    /\ ExpectsJson
    /\ JSONParse(last.reply.body).ok
    /\ GetProp(JSONParse(last.reply.body).v, "responseEnvelope").k = "obj"
    /\ "ack" \in DOMAIN GetProp(JSONParse(last.reply.body).v, "responseEnvelope").f
ReplyAck == GetProp(GetProp(JSONParse(last.reply.body).v, "responseEnvelope"), "ack")

\* C3: a reply with a status in [200, 300) whose parsed body carries
\* responseEnvelope.ack gives callApi's callback the body with httpStatusCode
\* set to the status; the error is null exactly when ack is the string
\* "Success" or "SuccessWithWarning", and an Error otherwise.
C3_AckDecidesError ==
    (EndedOnReply /\ InRange(last.reply.statusCode) /\ CarriesAck) =>
        /\ last.inner.n = 1
        /\ last.inner.res = SetProp(JSONParse(last.reply.body).v, "httpStatusCode", StatusValue)
        /\ (last.inner.err = JNull) <=> (ReplyAck \in {JStr("Success"), JStr("SuccessWithWarning")})
        /\ last.inner.err.k \in {"null", "error"}

\* C3, amended: as C3, with the error null exactly when the text of ack, as
\* the regular expression's test converts it, is "Success" or
\* "SuccessWithWarning": the array ["Success"] counts as well.
C3_AckTextDecidesError ==
    (EndedOnReply /\ InRange(last.reply.statusCode) /\ CarriesAck) =>
        /\ last.inner.n = 1
        /\ last.inner.res = SetProp(JSONParse(last.reply.body).v, "httpStatusCode", StatusValue)
        /\ (last.inner.err = JNull) <=>
              (JSToString(ReplyAck) \in {"Success", "SuccessWithWarning"})
        /\ last.inner.err.k \in {"null", "error"}
        /\ last.cb = 1 /\ last.err = last.inner.err /\ last.res = last.inner.res

\* C3's case: the SuccessWithWarning reply of the tests, under status 299.
C3_Witness ==
    /\ EndedOnReply /\ last.reply.statusCode = 299
    /\ last.reply.body = WarningBody
    /\ last.err = JNull
    /\ last.res = JObj(("responseEnvelope" :> JObj("ack" :> JStr("SuccessWithWarning")))
                       @@ ("mock" :> JStr("mock")) @@ ("httpStatusCode" :> JNum("299")))

\* C9: no reply the transport delivers makes the response handler throw: it
\* ends by invoking the callback, with a success value or an error.
C9_HandlerNeverThrows == EndedOnReply => (~last.threw /\ last.cb = 1)

\* C10: when responseFormat is JSON and the reply body does not parse,
\* callApi's callback gets the invalid-response error with the raw text as
\* response and the received status as httpStatusCode, and no response
\* value, whatever the status.
C10_InvalidJsonError ==
    (EndedOnReply /\ ExpectsJson /\ ~JSONParse(last.reply.body).ok) =>
        /\ last.inner.n = 1
        /\ last.inner.err =
              JError("Invalid JSON Response Received",
                     ("response" :> RawBody) @@ ("httpStatusCode" :> StatusValue))
        /\ last.inner.res = JUndef
        /\ last.cb = 1 /\ last.err = last.inner.err /\ last.res = JUndef

\* C10's case: a 400 reply whose body is not JSON ended in that error.
C10_Witness ==
    /\ EndedOnReply /\ ExpectsJson
    /\ last.reply.statusCode = 400
    /\ last.reply.body = <<W("<html>")>>
    /\ last.err.p = "Invalid JSON Response Received"
    /\ GetProp(last.err, "response") = JStr("<html>")
    /\ GetProp(last.err, "httpStatusCode") = JNum("400")

\* What the claims call missing, empty and supplied.
Missing(v) == v.k \in {"undefined", "null"}
Empty(v) == v = JStr("")
InputField(name) == GetProp(ctor.input, name)

\* The constructor's argument is one C4 says it rejects.
Rejected ==
    \/ Missing(ctor.input)
    \/ \E name \in {"userId", "password", "signature"} :
          Missing(InputField(name)) \/ Empty(InputField(name))
    \/ Missing(InputField("appId")) /\ InputField("sandbox") # JTrue

\* C4: the constructor throws for an absent config, for a missing or empty
\* userId, password or signature, and for a missing appId without sandbox
\* mode; then there is no client, and no request is built or sent.
C4_ConstructionFails ==
    (ctor.state # "none" /\ Rejected) =>
        /\ ctor.state = "threw"
        /\ ctor.error \in {"Config is required", "Config must have userId",
                           "Config must have password", "Config must have signature",
                           "Config must have appId"}
        /\ config = NoFields
        /\ issued = 0 /\ pending = NoFields /\ ~last.sent

\* C4's case: a production config with every credential and no appId.
C4_Witness ==
    /\ ctor.state = "threw"
    /\ ctor.error = "Config must have appId"
    /\ Truthy(InputField("userId")) /\ Truthy(InputField("signature"))

MandatoryHeaders ==
    {"X-PAYPAL-SECURITY-USERID", "X-PAYPAL-SECURITY-PASSWORD", "X-PAYPAL-SECURITY-SIGNATURE",
     "X-PAYPAL-APPLICATION-ID", "X-PAYPAL-REQUEST-DATA-FORMAT", "X-PAYPAL-RESPONSE-DATA-FORMAT"}

ConditionalHeaders ==
    ("X-PAYPAL-SANDBOX-EMAIL-ADDRESS" :> "sandboxEmailAddress")
    @@ ("X-PAYPAL-DEVICE-IPADDRESS" :> "deviceIpAddress")
    @@ ("X-PAYPAL-SECURITY-SUBJECT" :> "subject")

\* The headers C5 expects: the mandatory six, and each conditional header
\* whose field the constructor's argument holds with a value.
ExpectedHeaders ==
    MandatoryHeaders
    \cup {h \in DOMAIN ConditionalHeaders :
            ~Missing(InputField(ConditionalHeaders[h])) /\ ~Empty(InputField(ConditionalHeaders[h]))}

\* The requests handed to the transport: those in flight, and the last
\* ended call's.
RequestsSent ==
    {pending[id].request : id \in DOMAIN pending}
    \cup (IF last.sent THEN {last.request} ELSE {})

\* C5: every request is sent with exactly the six mandatory headers and the
\* conditional headers whose field was supplied.
C5_ExactlyTheConfiguredHeaders ==
    \A request \in RequestsSent : DOMAIN request.headers = ExpectedHeaders

\* C5, amended: every request is sent with those headers and Content-Length,
\* which httpsPost adds, whatever the payload; the text of the payload only
\* decides the value of Content-Length.
C5_ConfiguredHeadersAndLength ==
    \A request \in RequestsSent :
        /\ DOMAIN request.headers = ExpectedHeaders \cup {"Content-Length"}
        /\ \A h \in MandatoryHeaders :
              request.headers[h] = Get(config, CASE
                  h = "X-PAYPAL-SECURITY-USERID" -> "userId"
                  [] h = "X-PAYPAL-SECURITY-PASSWORD" -> "password"
                  [] h = "X-PAYPAL-SECURITY-SIGNATURE" -> "signature"
                  [] h = "X-PAYPAL-APPLICATION-ID" -> "appId"
                  [] h = "X-PAYPAL-REQUEST-DATA-FORMAT" -> "requestFormat"
                  [] OTHER -> "responseFormat")
        /\ \A h \in DOMAIN ConditionalHeaders \cap DOMAIN request.headers :
              request.headers[h] = InputField(ConditionalHeaders[h])

\* C5's case: requests with a payload and without one, from a client with
\* all three conditional fields and from one with none.
C5_Witness ==
    /\ last.sent /\ last.request.data = JObj("currencyCode" :> JStr("USD"))
    /\ last.request.headers["Content-Length"] = JStr("22")
    /\ "X-PAYPAL-SANDBOX-EMAIL-ADDRESS" \in DOMAIN last.request.headers
    /\ "X-PAYPAL-DEVICE-IPADDRESS" \in DOMAIN last.request.headers
    /\ "X-PAYPAL-SECURITY-SUBJECT" \in DOMAIN last.request.headers

\* The argument carries no usable identifier: the pay-key of
\* getPaymentOptions is absent or empty; the params of paymentDetails and
\* refund are an object with payKey, transactionId and trackingId each
\* absent or empty.
NoIdentifier(kind, arg) ==
    \/ kind = "getPaymentOptions" /\ (Missing(arg) \/ Empty(arg))
    \/ /\ kind \in {"paymentDetails", "refund"}
       /\ arg.k = "obj"
       /\ \A key \in {"payKey", "transactionId", "trackingId"} :
             Missing(GetProp(arg, key)) \/ Empty(GetProp(arg, key))

ValidationMessages ==
    ("getPaymentOptions" :> "Required \"payKey\"")
    @@ ("paymentDetails" :> "Required \"payKey\" or \"transactionId\" or \"trackingId\" on first param")
    @@ ("refund" :> "Required \"payKey\" or \"transactionId\" or \"trackingId\" on first param")

InnerSuccess == last.inner.n = 1 /\ last.inner.err = JNull
Sandboxed == InputField("sandbox") = JTrue
HasField(v, key) == v.k = "obj" /\ key \in DOMAIN v.f
\* The text %s puts in place of the key.
KeyText(v) == IF v.k = "str" THEN v.p ELSE "undefined"

\* C7: pay adds paymentApprovalUrl exactly when callApi reported success and
\* the response's paymentExecStatus is "CREATED": the sandbox or production
\* approval URL with the response's payKey in place of %s.  Otherwise the
\* caller gets the error and the response as callApi produced them.
C7_PayApprovalUrl ==
    (last.kind = "pay" /\ EndedOnOutcome) =>
        IF InnerSuccess /\ GetProp(last.inner.res, "paymentExecStatus") = JStr("CREATED")
        THEN /\ last.cb = 1 /\ last.err = JNull
             /\ last.res =
                   SetProp(last.inner.res, "paymentApprovalUrl",
                           JStr((IF Sandboxed
                                 THEN "https://www.sandbox.paypal.com/cgi-bin/webscr?cmd=_ap-payment&paykey="
                                 ELSE "https://www.paypal.com/cgi-bin/webscr?cmd=_ap-payment&paykey=")
                                \o KeyText(GetProp(last.inner.res, "payKey"))))
        ELSE /\ last.cb = last.inner.n
             /\ last.err = last.inner.err
             /\ last.res = last.inner.res
             /\ ~HasField(last.res, "paymentApprovalUrl")

\* C7's case: a sandbox client's pay got a CREATED reply with payKey AP-X.
C7_Witness ==
    /\ last.kind = "pay" /\ Sandboxed
    /\ last.reply.body = CreatedBody
    /\ last.err = JNull
    /\ GetProp(last.res, "paymentApprovalUrl") =
          JStr("https://www.sandbox.paypal.com/cgi-bin/webscr?cmd=_ap-payment&paykey=AP-X")
    /\ GetProp(last.res, "httpStatusCode") = JNum("200")

\* C8: preapproval adds preapprovalUrl exactly when callApi reported success
\* and the response carries a preapprovalKey (the field is there and not
\* empty): the sandbox or production pre-approval URL with that key in place
\* of %s.  Otherwise the response is callApi's, unmodified.
C8_PreapprovalUrl ==
    (last.kind = "preapproval" /\ EndedOnOutcome) =>
        IF /\ InnerSuccess
           /\ HasField(last.inner.res, "preapprovalKey")
           /\ ~Empty(GetProp(last.inner.res, "preapprovalKey"))
        THEN /\ last.cb = 1 /\ last.err = JNull
             /\ last.res =
                   SetProp(last.inner.res, "preapprovalUrl",
                           JStr((IF Sandboxed
                                 THEN "https://www.sandbox.paypal.com/webscr?cmd=_ap-preapproval&preapprovalkey="
                                 ELSE "https://www.paypal.com/webscr?cmd=_ap-preapproval&preapprovalkey=")
                                \o GetProp(last.inner.res, "preapprovalKey").p))
        ELSE /\ last.cb = last.inner.n
             /\ last.err = last.inner.err
             /\ last.res = last.inner.res
             /\ ~HasField(last.res, "preapprovalUrl")

\* C8's case: a sandbox client's preapproval got a reply with key PA-X.
C8_Witness ==
    /\ last.kind = "preapproval" /\ Sandboxed
    /\ last.reply.body = PreapprovedBody
    /\ last.err = JNull
    /\ last.res = JObj(("responseEnvelope" :> JObj("ack" :> JStr("Success")))
                       @@ ("preapprovalKey" :> JStr("PA-X"))
                       @@ ("httpStatusCode" :> JNum("299"))
                       @@ ("preapprovalUrl" :>
                             JStr("https://www.sandbox.paypal.com/webscr?cmd=_ap-preapproval&preapprovalkey=PA-X")))

\* The reply of a call as the transport sent it: its own status and the text
\* of its own chunks.
OwnReply(call) == EndReply(call.statusCode, Buffered(call.chunks))

\* The request callApi builds from the client's configuration and one
\* call's own data.
OwnRequest(call) == PostOptions(CallApiOptions(config, "just-for-check-header", call.arg))

\* C11: with any number of callApi calls in flight on one client, and in
\* every order in which their reply events arrive, the call that ends is
\* given the outcome of its own request and reply: its request is the one
\* built from its own data, and its callback gets either the transport's
\* error for it or what the handler makes of its own status and its own
\* body, never another call's; the calls still in flight keep their own
\* request, status and text; the client's configuration does not change.
C11_OwnOutcomeOnly ==
    [][/\ ctor.state = "ok" => config' = config
       /\ \A id \in DOMAIN pending :
             IF id \in DOMAIN pending'
             THEN /\ pending'[id].request = OwnRequest(pending[id])
                  /\ pending[id].responding =>
                       /\ pending'[id].statusCode = pending[id].statusCode
                       /\ pending'[id].response =
                            SubSeq(Buffered(pending[id].chunks), 1, Len(pending'[id].response))
             ELSE /\ last'.id = id
                  /\ last'.arg = pending[id].arg
                  /\ last'.request = OwnRequest(pending[id])
                  /\ IF last'.reply.responded
                     THEN /\ pending[id].responding
                          /\ last'.reply = OwnReply(pending[id])
                          /\ last'.inner = HandleReply(config, OwnReply(pending[id]))
                     ELSE /\ last'.reply.error \in TransportErrors
                          /\ last'.inner = Called(last'.reply.error, JUndef)
                  /\ last'.cb = last'.inner.n
                  /\ last'.err = last'.inner.err
                  /\ last'.res = last'.inner.res]_vars

\* C11's case: two calls with different data in flight, both replies begun;
\* the second call ends first, on its own 200 Success reply, while the first
\* holds the first chunk of its own 400 NotSuccess reply.
C11_Witness ==
    /\ last.id = 2 /\ last.kind = "callApi"
    /\ last.arg = JObj("currencyCode" :> JStr("USD"))
    /\ last.reply = EndReply(200, OkBody)
    /\ last.cb = 1 /\ last.err = JNull
    /\ last.res = JObj(("responseEnvelope" :> JObj("ack" :> JStr("Success")))
                       @@ ("mock" :> JStr("mock")) @@ ("httpStatusCode" :> JNum("200")))
    /\ 1 \in DOMAIN pending
    /\ pending[1].arg = JObj(NoFields)
    /\ pending[1].responding /\ pending[1].statusCode = 400
    /\ pending[1].chunks = <<SubSeq(FailureBody, 1, 4), SubSeq(FailureBody, 5, Len(FailureBody))>>
    /\ pending[1].got = 1 /\ pending[1].response = SubSeq(FailureBody, 1, 4)
    /\ config = merge(defaultConfig, ctor.input.f)

\* The application identifier a request carries.
AppIdHeader(request) == request.headers["X-PAYPAL-APPLICATION-ID"]

\* C12: every request of a constructed client carries a non-empty string as
\* X-PAYPAL-APPLICATION-ID: the caller's appId when the caller supplied one,
\* and the default APP-80W284485P519543T when the caller's appId is absent,
\* undefined, null or empty.
C12_AppIdNeverEmpty ==
    \A request \in RequestsSent :
        /\ AppIdHeader(request).k = "str"
        /\ AppIdHeader(request) # JStr("")
        /\ AppIdHeader(request) =
             IF Truthy(InputField("appId")) THEN InputField("appId")
             ELSE JStr("APP-80W284485P519543T")

====
